---- MODULE Spec2Model ----
(***************************************************************************)
(* Model of src/app.py: the projection engine calculate_scenario, the      *)
(* direct call on the sidebar inputs and the sensitivity sweep.            *)
(*                                                                         *)
(* Amounts and rates are exact rationals <<n, d>> (d > 0, lowest terms).   *)
(* The Python floats are modelled by their exact real values; rounding of  *)
(* IEEE doubles is not modelled.                                           *)
(***************************************************************************)
EXTENDS Integers, Sequences, FiniteSets, TLC

\* ------------------------------------------------------------------------
\* Exact rational arithmetic (stands for Python float arithmetic)
\* ------------------------------------------------------------------------
Abs(n) == IF n < 0 THEN -n ELSE n

RECURSIVE Gcd(_, _)
Gcd(a, b) == IF b = 0 THEN a ELSE Gcd(b, a % b)

Norm(n, d) ==
    LET g == Gcd(Abs(n), Abs(d))
        s == IF d < 0 THEN -1 ELSE 1
    IN  <<s * (n \div g), s * (d \div g)>>

R(n) == <<n, 1>>
Frac(n, d) == Norm(n, d)
Zero == <<0, 1>>
One == <<1, 1>>

RAdd(a, b) ==
    LET g == Gcd(a[2], b[2])
    IN  Norm(a[1] * (b[2] \div g) + b[1] * (a[2] \div g), a[2] * (b[2] \div g))
RNeg(a) == <<-a[1], a[2]>>
RSub(a, b) == RAdd(a, RNeg(b))
RMul(a, b) ==
    LET g1 == Gcd(Abs(a[1]), b[2])
        g2 == Gcd(Abs(b[1]), a[2])
        h1 == IF g1 = 0 THEN 1 ELSE g1
        h2 == IF g2 = 0 THEN 1 ELSE g2
    IN  Norm((a[1] \div h1) * (b[1] \div h2), (a[2] \div h2) * (b[2] \div h1))
RInv(a) == Norm(a[2], a[1])
RDiv(a, b) == RMul(a, RInv(b))
Sign(a) == IF a[1] > 0 THEN 1 ELSE IF a[1] < 0 THEN -1 ELSE 0
RLt(a, b) == Sign(RSub(a, b)) < 0
RLe(a, b) == Sign(RSub(a, b)) <= 0
RAbs(a) == <<Abs(a[1]), a[2]>>

RECURSIVE RPow(_, _)
RPow(a, n) == IF n = 0 THEN One ELSE RMul(a, RPow(a, n - 1))

RECURSIVE RSum(_, _)
\* sum(s[1..k])
RSum(s, k) == IF k = 0 THEN Zero ELSE RAdd(RSum(s, k - 1), s[k])

\* ------------------------------------------------------------------------
\* Bounds of the model and the sidebar values explored
\* ------------------------------------------------------------------------
\* The sliders allow holding periods of 1..30 and loan terms of 10..30 years;
\* the model runs the same code over holding periods 1..MaxHolding and loan
\* terms 1..MaxLoanTerm, with interest-only periods 0..loan_term.  The
\* 10-year depreciation window therefore always applies.
MaxHolding == 4
MaxLoanTerm == 3

\* Amounts and rates are picked so that the exact values stay small: the
\* rates are 0 and 1/2 (9/20 for tax, 1/10 for vacancy) and the amounts are
\* multiples of what the powers of 3/2 divide.  The loan amount field has no
\* lower bound, so a negative loan is among the values; 9880 exceeds the
\* upfront cost of the 6400 purchase, and 7410 is what the 7600 purchase
\* sells for, net of selling costs, at zero growth.
Prices == {R(6400), R(7600)}
Loans == {R(-2470), R(0), R(7410), R(9880)}
InterestRates == {Zero, Frac(1, 2)}
WeeklyRents == {R(0), R(80)}
VacancyRates == {Frac(1, 10)}
Opexes == {R(0), R(640)}
LandTaxes == {R(0), R(160)}
TaxRates == {Zero, Frac(9, 20)}
GrowthRates == {Zero, Frac(1, 2)}
CpiRates == {Frac(1, 2)}

SweepPrices == {R(6400)}
SweepLoans == {R(7410), R(9880)}
SweepWeeklyRents == {R(80)}
SweepOpexes == {R(640)}
SweepLandTaxes == {R(160)}
SweepTaxRates == {Frac(9, 20)}

\* ------------------------------------------------------------------------
\* Program constants
\* ------------------------------------------------------------------------
closing_costs == 2000
DepreciationAmount == 6000
DepreciationYears == 10
StampDutyRate == Frac(4, 100)
SellingCostRate == Frac(25, 1000)
CgtDiscount == Frac(1, 2)
WeeksPerYear == 52

\* The two axes of the sweep, two values each where the script has five.
growth_ranges == <<Zero, Frac(1, 2)>>
interest_ranges == <<Zero, Frac(1, 2)>>

VARIABLES
    \* module-level inputs (sidebar)
    purchase_price, loan_amount, interest_rate, loan_term, interest_only_period,
    weekly_rent, vacancy_rate, annual_opex, land_tax, marginal_tax_rate,
    capital_growth, cpi_rate, holding_period,
    \* script position and module-level results
    pc, results, matrix_data, row, ri, ci,
    \* position inside calculate_scenario: "idle", "loop" or "return"
    fpc,
    \* the frame of the running calculate_scenario invocation
    p_price, l_amount, i_rate, cap_growth,
    stamp_duty, initial_equity, years, year, data,
    current_loan, current_value, current_rent, current_opex,
    cash_flows_pre_tax, cash_flows_post_tax, total_principal_paid,
    sale, ret

inputs == <<purchase_price, loan_amount, interest_rate, loan_term,
            interest_only_period, weekly_rent, vacancy_rate, annual_opex,
            land_tax, marginal_tax_rate, capital_growth, cpi_rate, holding_period>>
script == <<pc, results, matrix_data, row, ri, ci>>
args == <<p_price, l_amount, i_rate, cap_growth>>
running == <<current_loan, current_value, current_rent, current_opex>>
streams == <<cash_flows_pre_tax, cash_flows_post_tax>>
frame == <<fpc, args, stamp_duty, initial_equity, years, year, data, running,
           streams, total_principal_paid, sale, ret>>
vars == <<inputs, script, frame>>

\* ------------------------------------------------------------------------
\* numpy_financial, as called by calculate_scenario
\* ------------------------------------------------------------------------
\* npf.pmt(rate, nper, pv) with fv = 0, when = 'end':
\*   temp = (1 + rate) ** nper
\*   fact = nper if rate == 0 else (temp - 1) / rate
\*   return -(pv * temp) / fact
Pmt(rate, nper, pv) ==
    LET temp == RPow(RAdd(One, rate), nper)
        fact == IF rate = Zero THEN R(nper) ELSE RDiv(RSub(temp, One), rate)
    IN  RNeg(RDiv(RMul(pv, temp), fact))

\* Sign of the net present value of cfs at the rate whose 1 + rate is x (x > 0),
\* computed on sum(cfs[j] * x^(Len - j)), which is the NPV times x^(Len - 1).
RECURSIVE Horner(_, _, _)
Horner(cfs, k, x) ==
    IF k = 1 THEN cfs[1] ELSE RAdd(RMul(Horner(cfs, k - 1, x), x), cfs[k])
NpvSign(cfs, x) == Sign(Horner(cfs, Len(cfs), x))

\* npf.irr(values): the real rate > -1 of smallest magnitude at which the NPV
\* is zero, nan when there is none.  The root is located to the resolution of
\* IrrGrid (values of 1 + rate): either a grid point where the NPV is zero or
\* two neighbouring grid points between which it changes sign.
IrrGrid == <<Frac(1, 2), One, R(2)>>
IrrNan == [nan |-> TRUE, lo |-> Zero, hi |-> Zero]
IrrCandidates(cfs) ==
    {[nan |-> FALSE, lo |-> RSub(IrrGrid[k], One), hi |-> RSub(IrrGrid[k], One)] :
        k \in {j \in 1..Len(IrrGrid) : NpvSign(cfs, IrrGrid[j]) = 0}}
    \cup
    {[nan |-> FALSE, lo |-> RSub(IrrGrid[k], One), hi |-> RSub(IrrGrid[k + 1], One)] :
        k \in {j \in 1..(Len(IrrGrid) - 1) :
                 NpvSign(cfs, IrrGrid[j]) * NpvSign(cfs, IrrGrid[j + 1]) < 0}}
IrrSize(c) == RAdd(RAbs(c.lo), RAbs(c.hi))
Irr(cfs) ==
    LET cands == IrrCandidates(cfs)
    IN  IF cands = {} THEN IrrNan
        ELSE CHOOSE c \in cands : \A e \in cands :
                \/ RLt(IrrSize(c), IrrSize(e))
                \/ IrrSize(c) = IrrSize(e) /\ RLe(e.lo, c.lo)

\* ------------------------------------------------------------------------
\* calculate_scenario, piece by piece
\* ------------------------------------------------------------------------
\* Initial Costs
StampDuty(p) == RMul(p, StampDutyRate)
TotalUpfrontCost(p) == RAdd(RAdd(p, StampDuty(p)), R(closing_costs))
\* Variant: the equity taken as loan minus upfront cost.
InitialEquityFlipped(p, l) == RSub(l, TotalUpfrontCost(p))
InitialEquity(p, l) == RSub(TotalUpfrontCost(p), l)

\* Running balances at entry
BaseRent == RMul(RMul(weekly_rent, R(WeeksPerYear)), RSub(One, vacancy_rate))
BaseOpex == RAdd(annual_opex, land_tax)

\* Variant: the final year is appended inside the loop as well.
InStreamAll(yr) == yr <= holding_period

\* Whether the year's flows go to the streams inside the loop
InStream(yr) == yr < holding_period

\* Variant: the principal taken as interest minus payment.
LoanCalcsSignFlip(yr, loan, rate) ==
    IF yr <= interest_only_period
    THEN [interest_payment |-> RMul(loan, rate), principal_payment |-> Zero]
    ELSE LET remaining_term == loan_term - (yr - 1)
         IN  IF remaining_term > 0
             THEN LET payment == RNeg(Pmt(rate, remaining_term, loan))
                      interest_payment == RMul(loan, rate)
                  IN  [interest_payment |-> interest_payment,
                       principal_payment |-> RSub(interest_payment, payment)]
             ELSE [interest_payment |-> Zero, principal_payment |-> Zero]

\* Variant: the interest-only test is strict, so the last interest-only year
\* already amortizes.
LoanCalcsStrictIO(yr, loan, rate) ==
    IF yr < interest_only_period
    THEN [interest_payment |-> RMul(loan, rate), principal_payment |-> Zero]
    ELSE LET remaining_term == loan_term - (yr - 1)
         IN  IF remaining_term > 0
             THEN LET payment == RNeg(Pmt(rate, remaining_term, loan))
                      interest_payment == RMul(loan, rate)
                  IN  [interest_payment |-> interest_payment,
                       principal_payment |-> RSub(payment, interest_payment)]
             ELSE [interest_payment |-> Zero, principal_payment |-> Zero]

\* 3. Loan Calcs
LoanCalcs(yr, loan, rate) ==
    IF yr <= interest_only_period
    THEN [interest_payment |-> RMul(loan, rate), principal_payment |-> Zero]
    ELSE LET remaining_term == loan_term - (yr - 1)
         IN  IF remaining_term > 0
             THEN LET payment == RNeg(Pmt(rate, remaining_term, loan))
                      interest_payment == RMul(loan, rate)
                  IN  [interest_payment |-> interest_payment,
                       principal_payment |-> RSub(payment, interest_payment)]
             ELSE [interest_payment |-> Zero, principal_payment |-> Zero]

\* Update Loan Balance
UpdateLoan(loan, principal_payment) ==
    LET l == RSub(loan, principal_payment)
    IN  IF RLt(l, Zero) THEN Zero ELSE l

\* 1. Inflate Income/Expenses
Inflate(yr, amount) ==
    RMul(amount, IF yr > 1 THEN RAdd(One, cpi_rate) ELSE One)

\* 4. Tax Calcs
TaxPayable(yr, noi, interest_payment) ==
    LET depreciation == IF yr <= DepreciationYears THEN R(DepreciationAmount) ELSE Zero
        taxable_income == RSub(RSub(noi, interest_payment), depreciation)
    IN  RMul(taxable_income, marginal_tax_rate)

\* One pass of the loop body for a year >= 1: the row appended to data.
YearRow(yr, loan, value, rent, opex, rate, growth) ==
    LET new_rent == Inflate(yr, rent)
        new_opex == Inflate(yr, opex)
        noi == RSub(new_rent, new_opex)
        lc == LoanCalcs(yr, loan, rate)
        tax_payable == TaxPayable(yr, noi, lc.interest_payment)
        pre_tax_cf == RSub(RSub(noi, lc.interest_payment), lc.principal_payment)
        post_tax_cf == RSub(pre_tax_cf, tax_payable)
    IN  [Year |-> yr,
         Value |-> RMul(value, RAdd(One, growth)),
         Loan |-> UpdateLoan(loan, lc.principal_payment),
         Rent |-> new_rent, Opex |-> new_opex, NOI |-> noi,
         Interest |-> lc.interest_payment, Principal |-> lc.principal_payment,
         Tax |-> tax_payable, PreTaxCF |-> pre_tax_cf, PostTaxCF |-> post_tax_cf]

\* Variant: the year-0 row with a zero post-tax cash flow.
Year0RowNoOutlay(p, l, equity) ==
    [Year |-> 0, Value |-> p, Loan |-> l, Rent |-> Zero, Opex |-> Zero,
     NOI |-> Zero, Interest |-> Zero, Principal |-> Zero, Tax |-> Zero,
     PreTaxCF |-> Zero, PostTaxCF |-> Zero]

\* The row appended for year 0.
Year0Row(p, l, equity) ==
    [Year |-> 0, Value |-> p, Loan |-> l, Rent |-> Zero, Opex |-> Zero,
     NOI |-> Zero, Interest |-> Zero, Principal |-> Zero, Tax |-> Zero,
     PreTaxCF |-> Zero, PostTaxCF |-> RNeg(equity)]

\* Variant: the post-tax proceeds leave out the capital-gains tax.
SaleCalcProceedsNoCgt(last, p, duty) ==
    LET sale_price == last.Value
        selling_costs == RMul(sale_price, SellingCostRate)
        loan_balance == last.Loan
        cost_base == RAdd(RAdd(p, duty), R(closing_costs))
        gross_gain == RSub(RSub(sale_price, selling_costs), cost_base)
        taxable_gain == IF holding_period > 1 THEN RMul(gross_gain, CgtDiscount)
                        ELSE gross_gain
        cgt_payable == RMul(taxable_gain, marginal_tax_rate)
    IN  [sale_price |-> sale_price, selling_costs |-> selling_costs,
         loan_balance |-> loan_balance, cost_base |-> cost_base,
         gross_gain |-> gross_gain, taxable_gain |-> taxable_gain,
         cgt_payable |-> cgt_payable,
         net_proceeds_post_tax |->
             RSub(RSub(sale_price, selling_costs), loan_balance),
         net_proceeds_pre_tax |-> RSub(RSub(sale_price, selling_costs), loan_balance)]

\* Variant: the 50% discount applied from the first year on.
SaleCalcAlwaysDiscount(last, p, duty) ==
    LET sale_price == last.Value
        selling_costs == RMul(sale_price, SellingCostRate)
        loan_balance == last.Loan
        cost_base == RAdd(RAdd(p, duty), R(closing_costs))
        gross_gain == RSub(RSub(sale_price, selling_costs), cost_base)
        taxable_gain == IF holding_period >= 1 THEN RMul(gross_gain, CgtDiscount)
                        ELSE gross_gain
        cgt_payable == RMul(taxable_gain, marginal_tax_rate)
    IN  [sale_price |-> sale_price, selling_costs |-> selling_costs,
         loan_balance |-> loan_balance, cost_base |-> cost_base,
         gross_gain |-> gross_gain, taxable_gain |-> taxable_gain,
         cgt_payable |-> cgt_payable,
         net_proceeds_post_tax |->
             RSub(RSub(RSub(sale_price, selling_costs), loan_balance), cgt_payable),
         net_proceeds_pre_tax |-> RSub(RSub(sale_price, selling_costs), loan_balance)]

\* TERMINAL VALUE (SALE) and CGT Calc
SaleCalc(last, p, duty) ==
    LET sale_price == last.Value
        selling_costs == RMul(sale_price, SellingCostRate)
        loan_balance == last.Loan
        cost_base == RAdd(RAdd(p, duty), R(closing_costs))
        gross_gain == RSub(RSub(sale_price, selling_costs), cost_base)
        taxable_gain == IF holding_period > 1 THEN RMul(gross_gain, CgtDiscount)
                        ELSE gross_gain
        cgt_payable == RMul(taxable_gain, marginal_tax_rate)
    IN  [sale_price |-> sale_price, selling_costs |-> selling_costs,
         loan_balance |-> loan_balance, cost_base |-> cost_base,
         gross_gain |-> gross_gain, taxable_gain |-> taxable_gain,
         cgt_payable |-> cgt_payable,
         net_proceeds_post_tax |->
             RSub(RSub(RSub(sale_price, selling_costs), loan_balance), cgt_payable),
         net_proceeds_pre_tax |-> RSub(RSub(sale_price, selling_costs), loan_balance)]

\* Metrics and the returned dictionary ("Data" is the variable data).
\* sum(df_row[10] for df_row in data[1:])
PostTaxTotal(rows) ==
    RSum([k \in 1..(Len(rows) - 1) |-> rows[k + 1].PostTaxCF], Len(rows) - 1)

\* Variant: the guard only excludes a zero denominator.
CashOnCashNonZeroGuard(total_cash_in, total_cash_out) ==
    IF total_cash_out # Zero THEN RDiv(total_cash_in, total_cash_out) ELSE Zero

CashOnCash(total_cash_in, total_cash_out) ==
    IF RLt(Zero, total_cash_out) THEN RDiv(total_cash_in, total_cash_out) ELSE Zero

Metrics(rows, post, pre, s, equity, principal_paid) ==
    LET total_cash_in == RAdd(PostTaxTotal(rows), s.net_proceeds_post_tax)
        total_cash_out == RAdd(equity, principal_paid)
    IN  [irr_post_tax |-> Irr(post),
         irr_pre_tax |-> Irr(pre),
         coc_total_outlay |-> CashOnCash(total_cash_in, total_cash_out),
         net_profit |-> RSum(post, Len(post))]

NoSale ==
    [sale_price |-> Zero, selling_costs |-> Zero, loan_balance |-> Zero,
     cost_base |-> Zero, gross_gain |-> Zero, taxable_gain |-> Zero,
     cgt_payable |-> Zero, net_proceeds_post_tax |-> Zero,
     net_proceeds_pre_tax |-> Zero]
NoResult ==
    [irr_post_tax |-> IrrNan, irr_pre_tax |-> IrrNan, coc_total_outlay |-> Zero,
     net_profit |-> Zero]

\* ------------------------------------------------------------------------
\* Initial state: the sidebar has been read, nothing has been computed
\* ------------------------------------------------------------------------
InitScript ==
    /\ pc = "start"
    /\ results = NoResult
    /\ matrix_data = <<>>
    /\ row = <<>>
    /\ ri = 1
    /\ ci = 1
    /\ fpc = "idle"
    /\ p_price = Zero /\ l_amount = Zero /\ i_rate = Zero /\ cap_growth = Zero
    /\ stamp_duty = Zero /\ initial_equity = Zero
    /\ years = 0 /\ year = 0 /\ data = <<>>
    /\ current_loan = Zero /\ current_value = Zero
    /\ current_rent = Zero /\ current_opex = Zero
    /\ cash_flows_pre_tax = <<>> /\ cash_flows_post_tax = <<>>
    /\ total_principal_paid = Zero
    /\ sale = NoSale
    /\ ret = NoResult

Init ==
    /\ purchase_price \in Prices
    /\ loan_amount \in Loans
    /\ interest_rate \in InterestRates
    /\ loan_term \in 1..MaxLoanTerm
    /\ interest_only_period \in 0..loan_term
    /\ weekly_rent \in WeeklyRents
    /\ vacancy_rate \in VacancyRates
    /\ annual_opex \in Opexes
    /\ land_tax \in LandTaxes
    /\ marginal_tax_rate \in TaxRates
    /\ capital_growth \in GrowthRates
    /\ cpi_rate \in CpiRates
    /\ holding_period \in 1..MaxHolding
    /\ InitScript

\* The same, over the narrower set of sidebar values used for the sweep.
InitSweep ==
    /\ purchase_price \in SweepPrices
    /\ loan_amount \in SweepLoans
    /\ interest_rate \in InterestRates
    /\ loan_term \in 1..MaxLoanTerm
    /\ interest_only_period \in 0..loan_term
    /\ weekly_rent \in SweepWeeklyRents
    /\ vacancy_rate \in VacancyRates
    /\ annual_opex \in SweepOpexes
    /\ land_tax \in SweepLandTaxes
    /\ marginal_tax_rate \in SweepTaxRates
    /\ capital_growth \in GrowthRates
    /\ cpi_rate \in CpiRates
    /\ holding_period \in 1..MaxHolding
    /\ InitScript

\* ------------------------------------------------------------------------
\* calculate_scenario: entry, loop, sale and return
\* ------------------------------------------------------------------------
\* Variant: the property value is kept from the previous invocation.
EnterCarriesValue(p, l, i, g) ==
    LET equity == InitialEquity(p, l)
    IN  /\ fpc' = "loop"
        /\ p_price' = p /\ l_amount' = l /\ i_rate' = i /\ cap_growth' = g
        /\ stamp_duty' = StampDuty(p)
        /\ initial_equity' = equity
        /\ years' = holding_period + 1
        /\ year' = 0
        /\ data' = <<>>
        /\ current_loan' = l
        /\ current_value' = IF pc = "start" THEN p ELSE current_value
        /\ current_rent' = BaseRent
        /\ current_opex' = BaseOpex
        /\ cash_flows_pre_tax' = <<RNeg(equity)>>
        /\ cash_flows_post_tax' = <<RNeg(equity)>>
        /\ total_principal_paid' = Zero
        /\ sale' = NoSale
        /\ ret' = NoResult

\* Entry of calculate_scenario(p, l, i, g), down to the start of the loop.
Enter(p, l, i, g) ==
    LET equity == InitialEquity(p, l)
    IN  /\ fpc' = "loop"
        /\ p_price' = p /\ l_amount' = l /\ i_rate' = i /\ cap_growth' = g
        /\ stamp_duty' = StampDuty(p)
        /\ initial_equity' = equity
        /\ years' = holding_period + 1
        /\ year' = 0
        /\ data' = <<>>
        /\ current_loan' = l
        /\ current_value' = p
        /\ current_rent' = BaseRent
        /\ current_opex' = BaseOpex
        /\ cash_flows_pre_tax' = <<RNeg(equity)>>
        /\ cash_flows_post_tax' = <<RNeg(equity)>>
        /\ total_principal_paid' = Zero
        /\ sale' = NoSale
        /\ ret' = NoResult

\* Loop iteration for year 0.
Year0 ==
    /\ fpc = "loop"
    /\ year < years
    /\ year = 0
    /\ data' = Append(data, Year0Row(p_price, l_amount, initial_equity))
    /\ year' = year + 1
    /\ UNCHANGED <<inputs, script, fpc, args, stamp_duty, initial_equity, years,
                   running, streams, total_principal_paid, sale, ret>>

\* Loop iteration for a year >= 1.
YearBody ==
    /\ fpc = "loop"
    /\ year < years
    /\ year # 0
    /\ LET r == YearRow(year, current_loan, current_value, current_rent,
                        current_opex, i_rate, cap_growth)
       IN  /\ current_rent' = r.Rent
           /\ current_opex' = r.Opex
           /\ current_loan' = r.Loan
           /\ total_principal_paid' = RAdd(total_principal_paid, r.Principal)
           /\ current_value' = r.Value
           /\ data' = Append(data, r)
           /\ IF InStream(year)
              THEN /\ cash_flows_pre_tax' = Append(cash_flows_pre_tax, r.PreTaxCF)
                   /\ cash_flows_post_tax' = Append(cash_flows_post_tax, r.PostTaxCF)
              ELSE UNCHANGED streams
    /\ year' = year + 1
    /\ UNCHANGED <<inputs, script, fpc, args, stamp_duty, initial_equity, years,
                   sale, ret>>

\* After the loop: terminal sale, final stream entries, metrics, return.
Sale ==
    /\ fpc = "loop"
    /\ year >= years
    /\ LET last == data[Len(data)]
           s == SaleCalc(last, p_price, stamp_duty)
           post == Append(cash_flows_post_tax,
                          RAdd(last.PostTaxCF, s.net_proceeds_post_tax))
           pre == Append(cash_flows_pre_tax,
                         RAdd(last.PreTaxCF, s.net_proceeds_pre_tax))
       IN  /\ sale' = s
           /\ cash_flows_post_tax' = post
           /\ cash_flows_pre_tax' = pre
           /\ ret' = Metrics(data, post, pre, s, initial_equity, total_principal_paid)
    /\ fpc' = "return"
    /\ UNCHANGED <<inputs, script, args, stamp_duty, initial_equity, years, year,
                   data, running, total_principal_paid>>

\* ------------------------------------------------------------------------
\* The script around it
\* ------------------------------------------------------------------------
\* results = calculate_scenario(purchase_price, loan_amount, interest_rate,
\*                              capital_growth): the call ...
CallDirect ==
    /\ pc = "start"
    /\ fpc = "idle"
    /\ Enter(purchase_price, loan_amount, interest_rate, capital_growth)
    /\ pc' = "direct"
    /\ UNCHANGED <<inputs, results, matrix_data, row, ri, ci>>

\* ... and the assignment of what it returned; then matrix_data = [] and the
\* sweep loops start.
StoreResults ==
    /\ pc = "direct"
    /\ fpc = "return"
    /\ results' = ret
    /\ matrix_data' = <<>>
    /\ row' = <<>>
    /\ ri' = 1
    /\ ci' = 1
    /\ pc' = "sweep"
    /\ fpc' = "idle"
    /\ UNCHANGED <<inputs, args, stamp_duty, initial_equity, years, year, data,
                   running, streams, total_principal_paid, sale, ret>>

\* res = calculate_scenario(purchase_price, loan_amount, ir, cg): the call
SweepCall ==
    /\ pc = "sweep"
    /\ fpc = "idle"
    /\ ri <= Len(interest_ranges)
    /\ Enter(purchase_price, loan_amount, interest_ranges[ri], growth_ranges[ci])
    /\ pc' = "cell"
    /\ UNCHANGED <<inputs, results, matrix_data, row, ri, ci>>

\* row.append(res['IRR Post-Tax']); at the end of a row,
\* matrix_data.append(row) and the next row starts empty.
StoreCell ==
    /\ pc = "cell"
    /\ fpc = "return"
    /\ LET new_row == Append(row, ret.irr_post_tax)
       IN  IF ci < Len(growth_ranges)
           THEN /\ row' = new_row
                /\ ci' = ci + 1
                /\ UNCHANGED <<ri, matrix_data>>
           ELSE /\ matrix_data' = Append(matrix_data, new_row)
                /\ row' = <<>>
                /\ ci' = 1
                /\ ri' = ri + 1
    /\ pc' = "sweep"
    /\ fpc' = "idle"
    /\ UNCHANGED <<inputs, results, args, stamp_duty, initial_equity, years, year,
                   data, running, streams, total_principal_paid, sale, ret>>

\* The run of the script down to results = calculate_scenario(...).
Next ==
    \/ CallDirect
    \/ Year0
    \/ YearBody
    \/ Sale
    \/ StoreResults

Spec == Init /\ [][Next]_vars

\* The whole script, sweep included.
NextSweep ==
    \/ Next
    \/ SweepCall
    \/ StoreCell

SpecSweep == InitSweep /\ [][NextSweep]_vars

\* ------------------------------------------------------------------------
\* calculate_scenario as a function of its arguments and the sidebar inputs
\* ------------------------------------------------------------------------
\* data after the loop has run years 0..k
RECURSIVE Ledger(_, _, _, _, _)
Ledger(k, p, l, i, g) ==
    IF k = 0 THEN <<Year0Row(p, l, InitialEquity(p, l))>>
    ELSE LET prev == Ledger(k - 1, p, l, i, g)
             last == prev[Len(prev)]
         IN  Append(prev,
                    YearRow(k, last.Loan, last.Value,
                            IF k = 1 THEN BaseRent ELSE last.Rent,
                            IF k = 1 THEN BaseOpex ELSE last.Opex, i, g))

\* res['IRR Post-Tax'] of calculate_scenario(p, l, i, g)
ScenarioIrrPostTax(p, l, i, g) ==
    LET rows == Ledger(holding_period, p, l, i, g)
        last == rows[Len(rows)]
        s == SaleCalc(last, p, StampDuty(p))
        interior == [k \in 1..(holding_period - 1) |-> rows[k + 1].PostTaxCF]
    IN  Irr(<<RNeg(InitialEquity(p, l))>> \o interior
            \o <<RAdd(last.PostTaxCF, s.net_proceeds_post_tax)>>)

\* ------------------------------------------------------------------------
\* Properties
\* ------------------------------------------------------------------------
Returned == fpc = "return"
InUnit(r) == RLe(Zero, r) /\ RLe(r, One)

\* The documented parameter domain, on the running invocation.
InDomain ==
    /\ InUnit(i_rate) /\ InUnit(cap_growth) /\ InUnit(vacancy_rate)
    /\ InUnit(marginal_tax_rate) /\ InUnit(cpi_rate)
    /\ interest_only_period <= loan_term
    /\ holding_period >= 1
    /\ RLe(Zero, l_amount)

\* C1: for in-domain parameters the loan balance recorded in year k is at most
\* the balance recorded in year k-1, and no recorded balance is negative.
C1_BalanceNonIncreasing ==
    InDomain =>
        /\ \A k \in 2..Len(data) : RLe(data[k].Loan, data[k - 1].Loan)
        /\ \A k \in 1..Len(data) : RLe(Zero, data[k].Loan)

\* C1 witness: a finished in-domain run of three or more years in which the
\* balance went strictly down in an amortizing year and is not yet zero.
C1_Witness ==
    /\ Returned /\ InDomain /\ Len(data) >= 4
    /\ RLt(data[3].Loan, data[2].Loan)
    /\ RLt(Zero, data[3].Loan)

\* C2 as stated, on the documented domain: in the year-0 record value =
\* purchase price, loan = loan principal and every flow field, post-tax cash
\* flow included, is 0.
C2_Year0AllFlowsZero ==
    (InDomain /\ Len(data) >= 1) =>
        /\ data[1].Value = p_price /\ data[1].Loan = l_amount
        /\ data[1].Rent = Zero /\ data[1].Opex = Zero /\ data[1].NOI = Zero
        /\ data[1].Interest = Zero /\ data[1].Principal = Zero
        /\ data[1].Tax = Zero /\ data[1].PreTaxCF = Zero
        /\ data[1].PostTaxCF = Zero

\* C2 amended: in the year-0 record value = purchase price, loan = loan
\* principal, the flow fields rent, opex, NOI, interest, principal, tax and
\* pre-tax cash flow are 0, and the post-tax cash flow field holds the
\* negative initial equity, the same amount as index 0 of both streams.
C2_Year0Record ==
    Len(data) >= 1 =>
        /\ data[1].Year = 0
        /\ data[1].Value = p_price /\ data[1].Loan = l_amount
        /\ data[1].Rent = Zero /\ data[1].Opex = Zero /\ data[1].NOI = Zero
        /\ data[1].Interest = Zero /\ data[1].Principal = Zero
        /\ data[1].Tax = Zero /\ data[1].PreTaxCF = Zero
        /\ data[1].PostTaxCF = RNeg(RSub(TotalUpfrontCost(p_price), l_amount))
        /\ data[1].PostTaxCF = cash_flows_post_tax[1]
        /\ data[1].PostTaxCF = cash_flows_pre_tax[1]

\* C2 witness: the year-0 record exists and the initial equity is not zero.
C2_Witness ==
    /\ InDomain
    /\ Len(data) >= 1 /\ data[1].Year = 0
    /\ initial_equity # Zero
    /\ p_price # Zero /\ l_amount # Zero

\* C3: when calculate_scenario finishes both streams have length
\* holding_period + 1 and the same entry at index 0; at each index k in
\* 1..H-1 pre-tax minus post-tax is year k's tax payable, and at index H it is
\* year H's tax payable plus the capital-gains tax.
C3_StreamsDifferByTax ==
    Returned =>
        /\ Len(cash_flows_pre_tax) = holding_period + 1
        /\ Len(cash_flows_post_tax) = holding_period + 1
        /\ cash_flows_pre_tax[1] = cash_flows_post_tax[1]
        /\ \A k \in 1..(holding_period - 1) :
              RSub(cash_flows_pre_tax[k + 1], cash_flows_post_tax[k + 1])
                  = data[k + 1].Tax
        /\ RSub(cash_flows_pre_tax[holding_period + 1],
                cash_flows_post_tax[holding_period + 1])
              = RAdd(data[holding_period + 1].Tax, sale.cgt_payable)

\* C3 witness: a finished run of three or more years with non-zero tax in an
\* interior year and in the last year and a non-zero capital-gains tax.
C3_Witness ==
    /\ Returned /\ holding_period >= 3
    /\ data[2].Tax # Zero /\ data[holding_period + 1].Tax # Zero
    /\ sale.cgt_payable # Zero

TotalCashOut == RAdd(initial_equity, total_principal_paid)
TotalCashIn == RAdd(PostTaxTotal(data), sale.net_proceeds_post_tax)

\* C4 as stated, on the documented domain: the cash-on-cash multiple is 0 if
\* and only if initial equity + total principal paid <= 0.
C4_ZeroIffDenominatorNotPositive ==
    (InDomain /\ Returned) =>
        (ret.coc_total_outlay = Zero <=> RLe(TotalCashOut, Zero))

\* C4 amended: the multiple is 0 whenever the denominator is <= 0; when the
\* denominator is > 0 it is total cash in / denominator, which is 0 exactly
\* when total cash in (post-tax flows of years 1..H plus net post-tax sale
\* proceeds) is 0.
C4_CashOnCashGuard ==
    Returned =>
        /\ RLe(TotalCashOut, Zero) => ret.coc_total_outlay = Zero
        /\ RLt(Zero, TotalCashOut) =>
              /\ RMul(ret.coc_total_outlay, TotalCashOut) = TotalCashIn
              /\ (ret.coc_total_outlay = Zero <=> TotalCashIn = Zero)

\* C4 witness: a finished in-domain run whose denominator is negative while
\* total cash in is not zero, so that the guard is what makes the multiple 0.
C4_Witness ==
    /\ Returned /\ InDomain
    /\ RLt(TotalCashOut, Zero) /\ TotalCashIn # Zero
    /\ ret.coc_total_outlay = Zero

\* C5 as stated, on the documented domain: index 0 of both streams is
\* strictly negative whenever the total upfront cost is positive.
C5_FirstEntryNegative ==
    (InDomain /\ Len(cash_flows_pre_tax) >= 1
        /\ RLt(Zero, TotalUpfrontCost(p_price))) =>
        /\ RLt(cash_flows_pre_tax[1], Zero)
        /\ RLt(cash_flows_post_tax[1], Zero)

\* C5 amended: index 0 of both streams is loan principal - total upfront cost
\* (purchase price + 4% stamp duty + 2000), so it is strictly negative exactly
\* when the loan principal is below the total upfront cost.
C5_FirstEntryIsMinusEquity ==
    Len(cash_flows_pre_tax) >= 1 =>
        LET upfront == RAdd(RAdd(p_price, RMul(p_price, Frac(4, 100))), R(2000))
        IN  /\ cash_flows_pre_tax[1] = RSub(l_amount, upfront)
            /\ cash_flows_post_tax[1] = RSub(l_amount, upfront)
            /\ RLt(cash_flows_pre_tax[1], Zero) <=> RLt(l_amount, upfront)

\* C5 witness: a run with positive upfront cost whose loan exceeds it, so that
\* index 0 of the streams is positive.
C5_Witness ==
    /\ InDomain
    /\ Len(cash_flows_post_tax) >= 1
    /\ RLt(Zero, TotalUpfrontCost(p_price))
    /\ RLt(Zero, cash_flows_post_tax[1])

FullyInterestOnlyOutcome ==
    /\ \A k \in 2..Len(data) : data[k].Principal = Zero
    /\ total_principal_paid = Zero
    /\ data[Len(data)].Loan = l_amount

CellsFilled ==
    /\ \A r \in 1..Len(matrix_data) : \A c \in 1..Len(matrix_data[r]) :
          matrix_data[r][c] =
              ScenarioIrrPostTax(purchase_price, loan_amount,
                                 interest_ranges[r], growth_ranges[c])
    /\ \A c \in 1..Len(row) :
          row[c] = ScenarioIrrPostTax(purchase_price, loan_amount,
                                      interest_ranges[ri], growth_ranges[c])
    /\ pc \in {"sweep", "cell"} =>
          results.irr_post_tax =
              ScenarioIrrPostTax(purchase_price, loan_amount,
                                 interest_rate, capital_growth)
\* C7: no step changes a module-level input, and every sensitivity-matrix
\* cell filled so far, as well as the result of the direct call, is the
\* post-tax IRR of calculate_scenario on its own arguments, whatever ran
\* before it.
C7_CallsIndependent == []CellsFilled /\ [][UNCHANGED inputs]_vars

\* C7 witness: the sweep is complete, after the direct call, and the matrix
\* has cells with different values, one of them defined.
C7_Witness ==
    /\ pc = "sweep" /\ ri > Len(interest_ranges)
    /\ Len(matrix_data) = Len(interest_ranges)
    /\ \E r1, r2 \in 1..Len(matrix_data) : \E c1, c2 \in 1..Len(growth_ranges) :
          /\ matrix_data[r1][c1] # matrix_data[r2][c2]
          /\ ~matrix_data[r1][c1].nan

\* C8: in the terminal sale the taxable gain is the full gross gain (sale
\* price - 2.5% selling costs - cost base) when holding period = 1 and half of
\* it when holding period > 1, and the capital-gains tax is the taxable gain
\* times the marginal tax rate.
C8_CgtDiscountRule ==
    Returned =>
        LET final_value == data[Len(data)].Value
            gross == RSub(RSub(final_value, RMul(final_value, Frac(25, 1000))),
                          TotalUpfrontCost(p_price))
        IN  /\ sale.gross_gain = gross
            /\ holding_period = 1 => sale.taxable_gain = gross
            /\ holding_period > 1 => RAdd(sale.taxable_gain, sale.taxable_gain) = gross
            /\ sale.cgt_payable = RMul(sale.taxable_gain, marginal_tax_rate)

\* C8 witness: a finished one-year run with a negative gross gain and a
\* negative capital-gains tax.
C8_Witness ==
    /\ Returned /\ holding_period = 1
    /\ RLt(sale.gross_gain, Zero) /\ RLt(sale.cgt_payable, Zero)

RECURSIVE PostTaxYears(_)
\* post-tax cash flow of years 1..k, from the year records
PostTaxYears(k) ==
    IF k = 0 THEN Zero ELSE RAdd(PostTaxYears(k - 1), data[k + 1].PostTaxCF)

\* C9: when calculate_scenario finishes, the last post-tax stream entry is
\* year H's post-tax cash flow plus the net post-tax sale proceeds, and Net
\* Profit is -initial equity + the post-tax cash flows of years 1..H + the
\* net post-tax sale proceeds, each year counted once.
C9_EveryYearCountedOnce ==
    Returned =>
        /\ cash_flows_post_tax[Len(cash_flows_post_tax)] =
              RAdd(data[holding_period + 1].PostTaxCF, sale.net_proceeds_post_tax)
        /\ ret.net_profit =
              RAdd(RAdd(RNeg(initial_equity), PostTaxYears(holding_period)),
                   sale.net_proceeds_post_tax)
        /\ ret.net_profit = RSub(TotalCashIn, initial_equity)

\* C9 witness: a finished one-year run with a non-zero year-1 post-tax cash
\* flow.
C9_Witness ==
    /\ Returned /\ holding_period = 1
    /\ data[2].PostTaxCF # Zero
    /\ sale.net_proceeds_post_tax # Zero

\* C10: for in-domain parameters with holding period > loan term, the balance
\* recorded in every year >= loan term is 0.
C10_ClosedLoanIsZero ==
    (InDomain /\ holding_period > loan_term) =>
        \A k \in 1..Len(data) :
            data[k].Year >= loan_term => data[k].Loan = Zero

====
